---- MODULE Spec2Model ----
(***************************************************************************)
(* A model of pytest_gee/utils.py: the helpers that wait for an Earth      *)
(* Engine task, list assets, export an asset, build a folder tree and      *)
(* delete an asset subtree.  The remote asset store and the remote task     *)
(* list are part of the state; every helper is a small sequential program   *)
(* whose position is a pc variable.                                         *)
(***************************************************************************)
EXTENDS Integers, Sequences, FiniteSets, TLC

\* ------------------------------------------------------------------ bounds
\* Nesting depth of the assets below the account root.
MaxDepth == 3
\* Number of assets below the account root in an initial store.
MaxAssets == 4

\* Largest timeout given to wait when it is called directly.
MaxTimeout == 12

\* time.sleep(5) before the task is looked up.
InitialDelay == 5
\* time.sleep(5) in the polling loop.
PollInterval == 5
\* timeout: int = 60
DefaultTimeout == 60

\* Segment names of the assets below the account root.
SegNames == {"a", "b"}
\* The id of the account root folder (ee.data.getAssetRoots()[0]["id"]).
Root == <<"users", "u">>
\* What the remote puts before an id to make the "name" of an asset record:
\* nothing for a cloud project, the legacy project path for a legacy root.
NamePrefixes == {<<>>, <<"projects", "earthengine-legacy", "assets">>}

\* ------------------------------------------------------------------ state
VARIABLES
    store,          \* remote asset namespace: id (sequence of segments) -> type
    namePrefix,     \* the remote's prefix of an asset "name" over its "id"
    listOrder,      \* the order in which the remote lists sibling names
    dpc,            \* delete_assets: position
    asset_id,       \* delete_assets: argument
    dry_run,        \* delete_assets: argument
    output,         \* delete_assets: the list being built
    got_assets,     \* delete_assets: asset_list, what get_assets returned
    assets_ordered, \* delete_assets: records still to delete, deepest first
    result,         \* delete_assets: the returned list
    store0,         \* the store when delete_assets was called
    deleteCalls,    \* ee.data.deleteAsset calls of the current delete_assets
    listCalls,      \* ee.data.listAssets calls of the current delete_assets
    lastDry,        \* the last dry run that returned: its argument, store, list
    tasks,          \* remote task list, in the order of ee.batch.Task.list()
    now,            \* time.time(), in seconds since wait was called
    wpc,            \* wait: position
    task,           \* wait: argument, a Task object or a description
    timeout,        \* wait: argument
    handle,         \* wait: the Task object after line 30 (0: None)
    state,          \* wait: local
    start_time,     \* wait: local
    wake,           \* when the running time.sleep ends
    wret,           \* wait: the returned state
    polls,          \* task.status() calls of the current wait
    sleeps,         \* time.sleep calls in the loop of the current wait
    observed,       \* the task's state at the last task.status() call
    completedAt,    \* per task, when it became COMPLETED (-1: not yet)
    ipc,            \* init_tree: position
    structure,      \* init_tree: argument
    prefix,         \* init_tree: argument
    root,           \* init_tree: argument, as passed
    tree0,          \* the store when init_tree was called
    createCalls,    \* ee.data.createAsset calls and task starts of init_tree
    root_folder,    \* init_tree: local
    plan,           \* init_tree: the calls _recursive_create has still to make
    epc,            \* export_asset: position
    etask,          \* export_asset: the task it started (0: none)
    overlapped      \* a task was started while an earlier one was unfinished

remoteVars == <<store, namePrefix, listOrder>>
deleteVars == <<dpc, asset_id, dry_run, output, got_assets, assets_ordered,
                result,
                store0, deleteCalls, listCalls, lastDry>>
taskVars == <<tasks, now, completedAt>>
waitVars == <<wpc, task, timeout, handle, state, start_time, wake, wret,
              polls, sleeps, observed>>
treeVars == <<ipc, structure, prefix, root, tree0, createCalls, root_folder,
              plan, epc, etask, overlapped>>
vars == <<remoteVars, deleteVars, taskVars, waitVars, treeVars>>

\* ------------------------------------------------------------------ paths
IsPrefix(p, q) == Len(p) <= Len(q) /\ SubSeq(q, 1, Len(p)) = p
Parent(p) == SubSeq(p, 1, Len(p) - 1)

\* Every id below the account root, to MaxDepth segments below it.
Universe ==
    {Root \o s : s \in UNION {[1..k -> SegNames] : k \in 1..MaxDepth}}

\* The asset an id or a name refers to.
IdOf(ref) ==
    IF namePrefix # <<>> /\ IsPrefix(namePrefix, ref)
    THEN SubSeq(ref, Len(namePrefix) + 1, Len(ref))
    ELSE ref

NameOf(id) == namePrefix \o id

\* The record the remote returns for an asset: keys type, name and id.
AssetRecord(id) == [type |-> store[id], name |-> NameOf(id), id |-> id]

\* ee.data.listAssets({"parent": parent})["assets"]
ListAssets(parent) ==
    LET p == IdOf(parent)
        kids == SelectSeq(listOrder, LAMBDA n : Append(p, n) \in DOMAIN store)
    IN  [i \in 1..Len(kids) |-> AssetRecord(Append(p, kids[i]))]

\* ------------------------------------------------------------ get_assets
RECURSIVE RecursiveGet(_, _)
RecursiveGet(folder, asset_list) ==
    LET listing == ListAssets(folder)
        RECURSIVE Loop(_, _)
        Loop(i, acc) ==
            IF i > Len(listing) THEN acc
            ELSE LET asset == listing[i]
                     acc1 == Append(acc, asset)
                 IN  Loop(i + 1,
                          IF asset.type = "FOLDER"
                          THEN RecursiveGet(asset.name, acc1)
                          ELSE acc1)
    IN  Loop(1, asset_list)

\* Mutant: the folders found are listed after the whole listing of their
\* parent (a queue of folders instead of the recursion inside the loop).
RECURSIVE BreadthFirst(_, _)
BreadthFirst(queue, asset_list) ==
    IF queue = <<>> THEN asset_list
    ELSE LET listing == ListAssets(Head(queue))
             folders == SelectSeq(listing, LAMBDA a : a.type = "FOLDER")
         IN  BreadthFirst(Tail(queue) \o
                              [i \in 1..Len(folders) |-> folders[i].name],
                          asset_list \o listing)

GetAssetsBreadthFirst(folder) == BreadthFirst(<<folder>>, <<>>)

\* Mutant: the listing of the folder alone, without following its folders.
GetAssetsFlat(folder) == ListAssets(folder)

GetAssets(folder) == RecursiveGet(folder, <<>>)

\* ---------------------------------------------------------- initial stores
\* The sets of ids below the root, closed under parent, of at most n ids.
RECURSIVE Shapes(_)
Shapes(n) ==
    IF n = 0 THEN {{}}
    ELSE LET prev == Shapes(n - 1)
         IN  prev \cup
             {t \cup {p} : <<t, p>> \in
                 {<<t, p>> \in prev \X Universe :
                     p \notin t /\ (Parent(p) = Root \/ Parent(p) \in t)}}

HasChild(ids, p) == \E q \in ids : q # p /\ Parent(q) = p

\* A remote namespace: the root is a folder, and so is every parent.
Stores ==
    UNION {{f \in [t \cup {Root} -> {"FOLDER", "IMAGE"}] :
               /\ f[Root] = "FOLDER"
               /\ \A p \in t : HasChild(t, p) => f[p] = "FOLDER"} :
           t \in Shapes(MaxAssets)}

\* ---------------------------------------------------------- delete_assets
\* lvl = len(asset["id"].split("/"))
Level(asset) == Len(asset.id)

SeqMax(S) == CHOOSE m \in S : \A x \in S : x <= m

\* assets_ordered after dict(sorted(assets_ordered.items(), reverse=True)),
\* read level by level: the records of the deepest level first, each level
\* in the order of asset_list.
RECURSIVE ByLevel(_, _)
ByLevel(lvls, asset_list) ==
    IF lvls = {} THEN <<>>
    ELSE LET m == SeqMax(lvls)
         IN  SelectSeq(asset_list, LAMBDA a : Level(a) = m)
                 \o ByLevel(lvls \ {m}, asset_list)

\* Mutant: the records are left in the order of the listing (no sort).
AssetsOrderedUnsorted(asset_list) == asset_list

\* Mutant: sorted without reverse=True, the shallowest level first.
RECURSIVE ByLevelAscending(_, _)
ByLevelAscending(lvls, asset_list) ==
    IF lvls = {} THEN <<>>
    ELSE LET m == SeqMax(lvls)
         IN  ByLevelAscending(lvls \ {m}, asset_list)
                 \o SelectSeq(asset_list, LAMBDA a : Level(a) = m)

AssetsOrderedAscending(asset_list) ==
    ByLevelAscending({Level(asset_list[i]) : i \in DOMAIN asset_list},
                     asset_list)

AssetsOrdered(asset_list) ==
    ByLevel({Level(asset_list[i]) : i \in DOMAIN asset_list}, asset_list)

\* asset_info["type"] == "FOLDER"
IsFolder(asset_info) == asset_info.type = "FOLDER"

\* One ee.data.listAssets call per _recursive_get call: the first one and one
\* per folder found.
ListCallCount(asset_list) ==
    1 + Cardinality({i \in DOMAIN asset_list : asset_list[i].type = "FOLDER"})

\* Whether the asset still holds another asset.
HasContent(st, id) == \E q \in DOMAIN st : q # id /\ IsPrefix(id, q)

\* The remote accepts ee.data.deleteAsset(ref): the asset exists and, for a
\* folder, is empty.
DeleteAccepted(ref) ==
    IdOf(ref) \in DOMAIN store /\ ~HasContent(store, IdOf(ref))

RemoveAsset(st, id) == [q \in DOMAIN st \ {id} |-> st[q]]

\* The record of one ee.data.deleteAsset call: what it was given, whether
\* the asset held another asset, whether the remote accepted it.
DeleteCall(ref, accepted) ==
    [ref |-> ref, nonEmpty |-> HasContent(store, IdOf(ref)), ok |-> accepted]

\* Mutant: the remote delete is called whatever dry_run is.
DeleteAlways(id, next) ==
    /\ output' = Append(output, id)
    /\ \E accepted \in BOOLEAN :
           /\ accepted => DeleteAccepted(id)
           /\ deleteCalls' = Append(deleteCalls, DeleteCall(id, accepted))
           /\ store' = IF accepted THEN RemoveAsset(store, IdOf(id)) ELSE store
           /\ dpc' = IF accepted THEN next ELSE "raised"

\* Mutant: the id is recorded and the remote delete never called.
DeleteRecordOnly(id, next) ==
    /\ output' = Append(output, id)
    /\ dpc' = next
    /\ UNCHANGED <<store, deleteCalls>>

\* Mutant: a failed ee.data.deleteAsset is caught and the loop goes on.
DeleteIgnoreErrors(id, next) ==
    /\ output' = Append(output, id)
    /\ dpc' = next
    /\ IF dry_run
       THEN UNCHANGED <<store, deleteCalls>>
       ELSE \E accepted \in BOOLEAN :
                /\ accepted => DeleteAccepted(id)
                /\ deleteCalls' = Append(deleteCalls, DeleteCall(id, accepted))
                /\ store' = IF accepted THEN RemoveAsset(store, IdOf(id))
                                        ELSE store

\* delete(id): record the id and, unless dry_run, call ee.data.deleteAsset,
\* whose failure (refused, or any remote error) propagates.
Delete(id, next) ==
    /\ output' = Append(output, id)
    /\ IF dry_run
       THEN /\ dpc' = next
            /\ UNCHANGED <<store, deleteCalls>>
       ELSE \E accepted \in BOOLEAN :
                /\ accepted => DeleteAccepted(id)
                /\ deleteCalls' = Append(deleteCalls, DeleteCall(id, accepted))
                /\ store' = IF accepted THEN RemoveAsset(store, IdOf(id))
                                        ELSE store
                /\ dpc' = IF accepted THEN next ELSE "raised"

\* delete_assets, lines 191-219: getAsset, then for a folder the listing and
\* the ordering by level.  The call is a first call, or the
\* documented workflow: the same call again with dry_run=False once the dry
\* run has returned.
DeleteAssetsCall(id, dry) ==
    /\ \/ dpc = "idle"
       \/ dpc = "returned" /\ dry_run /\ ~dry /\ id = asset_id
    /\ asset_id' = id
    /\ dry_run' = dry
    /\ output' = <<>>
    /\ result' = <<>>
    /\ store0' = store
    /\ deleteCalls' = <<>>
    /\ IF id \notin DOMAIN store
       THEN /\ dpc' = "raised"
            /\ got_assets' = <<>>
            /\ assets_ordered' = <<>>
            /\ listCalls' = 0
       ELSE /\ dpc' = "loop"
            /\ IF IsFolder(AssetRecord(id))
               THEN LET asset_list == GetAssets(id)
                    IN  /\ got_assets' = asset_list
                        /\ assets_ordered' = AssetsOrdered(asset_list)
                        /\ listCalls' = ListCallCount(asset_list)
               ELSE /\ got_assets' = <<>>
                    /\ assets_ordered' = <<>>
                    /\ listCalls' = 0
    /\ UNCHANGED <<remoteVars, lastDry, taskVars, waitVars, treeVars>>

\* lines 220-222: delete(i["name"]) for the next record.
DeleteNested ==
    /\ dpc = "loop"
    /\ assets_ordered # <<>>
    /\ Delete(Head(assets_ordered).name, "loop")
    /\ assets_ordered' = Tail(assets_ordered)
    /\ UNCHANGED <<namePrefix, listOrder, asset_id, dry_run, result, store0,
                   got_assets, listCalls, lastDry, taskVars, waitVars,
                   treeVars>>

\* Mutant: the initial folder is recorded and returned, line 225 never calls
\* the remote for it.
DeleteInitialRecordOnly ==
    /\ dpc = "loop"
    /\ assets_ordered = <<>>
    /\ output' = Append(output, asset_id)
    /\ dpc' = "returned"
    /\ result' = output'
    /\ lastDry' = IF dry_run
                  THEN [id |-> asset_id, store |-> store0, out |-> output']
                  ELSE lastDry
    /\ UNCHANGED <<remoteVars, deleteCalls, asset_id, dry_run, assets_ordered,
                   store0, got_assets, listCalls, taskVars, waitVars,
                   treeVars>>

\* lines 225-227: delete(asset_id), return output.
DeleteInitial ==
    /\ dpc = "loop"
    /\ assets_ordered = <<>>
    /\ Delete(asset_id, "returned")
    /\ result' = IF dpc' = "returned" THEN output' ELSE result
    /\ lastDry' = IF dpc' = "returned" /\ dry_run
                  THEN [id |-> asset_id, store |-> store0, out |-> output']
                  ELSE lastDry
    /\ UNCHANGED <<namePrefix, listOrder, asset_id, dry_run, assets_ordered,
                   store0, got_assets, listCalls, taskVars, waitVars,
                   treeVars>>

\* ------------------------------------------------------------ remote tasks
TaskStates ==
    {"UNSUBMITTED", "READY", "RUNNING", "COMPLETED", "FAILED", "CANCELLED"}

\* The states a remote task can move to from state s.
TaskSuccessors(s) ==
    CASE s = "UNSUBMITTED" -> {"READY"}
      [] s = "READY" -> {"RUNNING", "FAILED", "CANCELLED"}
      [] s = "RUNNING" -> {"COMPLETED", "FAILED", "CANCELLED"}
      [] OTHER -> {}

\* A task description: the pieces of the string, in order.
Descriptions == {<<"d">>, <<"e">>}

NoTask == [kind |-> "none"]
TaskObject(i) == [kind |-> "Task", id |-> i]
TaskDescription(d) == [kind |-> "str", description |-> d]

\* ------------------------------------------------------------------ get_task
\* The first task of ee.batch.Task.list() with the description, else None (0).
\* tasks holds the tasks in the order they were started; the remote lists the
\* tasks it has registered, the newest first.
GetTask(task_descripsion) ==
    LET found == {i \in DOMAIN tasks :
                     /\ tasks[i].listed
                     /\ tasks[i].description = task_descripsion}
    IN  IF found = {} THEN 0
        ELSE CHOOSE i \in found : \A j \in found : i >= j

\* ---------------------------------------------------------------------- wait
\* task.status()["state"]
TaskStatus(i) == tasks[i].state

\* Mutant: the loop sleeps only when the sleep ends before the timeout.
LoopContinuesNoOvershoot(st, elapsed, to) ==
    st # "COMPLETED" /\ elapsed + PollInterval < to

\* Mutant: the loop goes on while the elapsed time is at most the timeout.
LoopContinuesInclusive(st, elapsed, to) ==
    st # "COMPLETED" /\ elapsed <= to

\* while state != "COMPLETED" and time.time() - start_time < timeout
LoopContinues(st, elapsed, to) ==
    st # "COMPLETED" /\ elapsed < to

\* Mutant: no break.
BreaksNever(st) == FALSE

\* if state == "FAILED": break
Breaks(st) == st = "FAILED"

\* line 27: wait is called and sleeps.
WaitCall(t, to) ==
    /\ wpc = "idle"
    /\ task' = t
    /\ timeout' = to
    /\ now' = 0
    /\ wake' = now' + InitialDelay
    /\ wpc' = "delay"
    /\ polls' = 0
    /\ sleeps' = 0
    /\ UNCHANGED <<handle, state, start_time, wret, observed>>

\* Time passes while wait sleeps.
Tick ==
    /\ wpc \in {"delay", "sleep"}
    /\ now < wake
    /\ now' = now + 1
    /\ UNCHANGED <<remoteVars, deleteVars, tasks, completedAt, waitVars,
                   treeVars>>

\* lines 30-35: the Task object, the assertion, state and start_time.
WaitResolve ==
    /\ wpc = "delay"
    /\ now = wake
    /\ handle' = IF task.kind = "Task" THEN task.id
                 ELSE GetTask(task.description)
    /\ IF handle' = 0
       THEN /\ wpc' = "raised"
            /\ UNCHANGED <<state, start_time>>
       ELSE /\ wpc' = "check"
            /\ state' = "UNSUBMITTED"
            /\ start_time' = now
    /\ UNCHANGED <<task, timeout, wake, wret, polls, sleeps, observed>>

\* line 36, then line 37 (the sleep starts) or line 42 (return state).
WaitLoop ==
    /\ wpc = "check"
    /\ IF LoopContinues(state, now - start_time, timeout)
       THEN /\ wpc' = "sleep"
            /\ wake' = now + PollInterval
            /\ sleeps' = sleeps + 1
            /\ UNCHANGED wret
       ELSE /\ wpc' = "returned"
            /\ wret' = state
            /\ UNCHANGED <<wake, sleeps>>
    /\ UNCHANGED <<task, timeout, handle, state, start_time, polls, observed>>

\* lines 38-40, once the sleep has ended: the status, and the break.
WaitPoll ==
    /\ wpc = "sleep"
    /\ now = wake
    /\ state' = TaskStatus(handle)
    /\ observed' = tasks[handle].state
    /\ polls' = polls + 1
    /\ IF Breaks(state')
       THEN /\ wpc' = "returned"
            /\ wret' = state'
       ELSE /\ wpc' = "check"
            /\ UNCHANGED wret
    /\ UNCHANGED <<task, timeout, handle, start_time, wake, sleeps>>

\* The remote can create an asset at id: its parent is a folder and the id
\* is free.
CanCreate(id) ==
    /\ id \notin DOMAIN store
    /\ Parent(id) \in DOMAIN store
    /\ store[Parent(id)] = "FOLDER"

AddAsset(st, id, type) ==
    [q \in DOMAIN st \cup {id} |-> IF q = id THEN type ELSE st[q]]

\* The remote moves an export task on, while a wait is running; a task that
\* completes has created its asset.
TaskStep(i) ==
    /\ wpc \in {"delay", "check", "sleep"}
    /\ \E s \in TaskSuccessors(tasks[i].state) :
           /\ tasks' = [tasks EXCEPT ![i].state = s]
           /\ IF s = "COMPLETED"
              THEN /\ CanCreate(tasks[i].assetId)
                   /\ store' = AddAsset(store, tasks[i].assetId, tasks[i].type)
                   /\ completedAt' = [completedAt EXCEPT ![i] = now]
              ELSE UNCHANGED <<store, completedAt>>
    /\ UNCHANGED <<namePrefix, listOrder, deleteVars, now, waitVars, treeVars>>

\* The remote registers a started task: ee.batch.Task.list() shows it.
TaskRegister(i) ==
    /\ ~tasks[i].listed
    /\ tasks' = [tasks EXCEPT ![i].listed = TRUE]
    /\ UNCHANGED <<remoteVars, deleteVars, now, completedAt, waitVars,
                   treeVars>>

\* -------------------------------------------------------------- export_asset
Image == [kind |-> "Image"]
FeatureCollection == [kind |-> "FeatureCollection"]
OtherObject == [kind |-> "ComputedObject"]
Dict(items) == [kind |-> "dict", items |-> items]

\* Mutant: no else branch, any object is exported as an image.
SupportedAlways(object) == TRUE

\* isinstance(object, ee.FeatureCollection) / isinstance(object, ee.Image)
Supported(object) == object.kind \in {"FeatureCollection", "Image"}

\* The task Export.table.toAsset / Export.image.toAsset makes, once started.
ExportTask(object, id, description) ==
    [description |-> description,
     state |-> "READY",
     assetId |-> id,
     type |-> IF object.kind = "FeatureCollection" THEN "TABLE" ELSE "IMAGE",
     listed |-> FALSE]

\* completedAt when a wait is called: now is 0 again, and a task that is
\* COMPLETED was so when the wait was called.
Stamps(ts) == [i \in DOMAIN ts |-> IF ts[i].state = "COMPLETED" THEN 0 ELSE -1]

Unfinished(i) == tasks[i].state \in {"UNSUBMITTED", "READY", "RUNNING"}

\* export_asset, lines 101-121: the task is made and started and wait is
\* called with the description and the default timeout; an unsupported
\* object raises before that.
ExportAssetCall(object, id, description) ==
    /\ epc = "idle"
    /\ IF Supported(object)
       THEN /\ tasks' = Append(tasks, ExportTask(object, id, description))
            /\ completedAt' = Stamps(tasks')
            /\ etask' = Len(tasks) + 1
            /\ overlapped' =
                  (overlapped \/ \E i \in DOMAIN tasks : Unfinished(i))
            /\ createCalls' =
                  Append(createCalls,
                         [op |-> "export", asset_id |-> id,
                          description |-> description, ok |-> TRUE])
            /\ epc' = "waiting"
            /\ WaitCall(TaskDescription(description), DefaultTimeout)
       ELSE /\ epc' = "raised"
            /\ UNCHANGED <<tasks, completedAt, etask, overlapped, now,
                           waitVars, createCalls>>

\* -------------------------------------------------------------- init_tree
\* Mutant: the description is the name alone.
DescriptionNameOnly(pfx, name) == <<name>>

\* f"{prefix}_{name}"
Description(pfx, name) == <<pfx, "_", name>>

NoObject == [kind |-> "none"]

\* Mutant: the content of a folder is created before the folder itself.
RECURSIVE RecursiveCreateContentFirst(_, _, _)
RecursiveCreateContentFirst(struct, pfx, folder) ==
    IF struct = <<>> THEN <<>>
    ELSE LET name == Head(struct)[1]
             content == Head(struct)[2]
             id == Append(folder, name)
             calls ==
                 IF content.kind = "dict"
                 THEN RecursiveCreateContentFirst(content.items, pfx, id)
                          \o <<[op |-> "createAsset", asset_id |-> id,
                                description |-> <<pfx, "_", name>>,
                                object |-> [kind |-> "none"]]>>
                 ELSE <<[op |-> "export_asset", asset_id |-> id,
                         description |-> <<pfx, "_", name>>,
                         object |-> content]>>
         IN  calls \o RecursiveCreateContentFirst(Tail(struct), pfx, folder)

\* The calls of _recursive_create(structure, prefix, folder), in order: a
\* structure is the sequence of the (name, content) items of the dict.
RECURSIVE RecursiveCreate(_, _, _)
RecursiveCreate(struct, pfx, folder) ==
    IF struct = <<>> THEN <<>>
    ELSE LET name == Head(struct)[1]
             content == Head(struct)[2]
             id == Append(folder, name)
             calls ==
                 IF content.kind = "dict"
                 THEN <<[op |-> "createAsset", asset_id |-> id,
                         description |-> Description(pfx, name),
                         object |-> NoObject]>>
                          \o RecursiveCreate(content.items, pfx, id)
                 ELSE <<[op |-> "export_asset", asset_id |-> id,
                         description |-> Description(pfx, name),
                         object |-> content]>>
         IN  calls \o RecursiveCreate(Tail(struct), pfx, folder)

\* ee.data.createAsset({"type": "FOLDER"}, id): the folder is made, or the
\* call fails (the remote refuses when the asset exists or its parent does
\* not, and any remote error) and leaves the store as it is.
CreateAsset(id, accepted) ==
    /\ createCalls' =
          Append(createCalls,
                 [op |-> "createAsset", asset_id |-> id, description |-> <<>>,
                  ok |-> accepted])
    /\ accepted => CanCreate(id)
    /\ store' = IF accepted THEN AddAsset(store, id, "FOLDER") ELSE store

\* init_tree, lines 162-164: root is replaced by the first root of the
\* account and the root folder is created.
InitTreeCall(struct, pfx, rt) ==
    /\ ipc = "idle"
    /\ structure' = struct
    /\ prefix' = pfx
    /\ root' = rt
    /\ tree0' = store
    /\ root_folder' = Append(Root, pfx)
    /\ \E accepted \in BOOLEAN :
           /\ CreateAsset(root_folder', accepted)
           /\ IF accepted
              THEN /\ plan' = RecursiveCreate(struct, pfx, root_folder')
                   /\ ipc' = "walk"
              ELSE /\ ipc' = "raised"
                   /\ UNCHANGED plan
    /\ UNCHANGED <<namePrefix, listOrder, deleteVars, taskVars, waitVars,
                   epc, etask, overlapped>>

\* Mutant: a failed createAsset is caught and the loop goes on.
CreateFolderIgnoreErrors ==
    /\ ipc = "walk"
    /\ epc = "idle"
    /\ plan # <<>>
    /\ Head(plan).op = "createAsset"
    /\ \E accepted \in BOOLEAN : CreateAsset(Head(plan).asset_id, accepted)
    /\ plan' = Tail(plan)
    /\ ipc' = "walk"
    /\ UNCHANGED <<namePrefix, listOrder, deleteVars, taskVars, waitVars,
                   structure, prefix, root, tree0, root_folder, epc, etask,
                   overlapped>>

\* line 156: ee.data.createAsset of a subfolder.
CreateFolder ==
    /\ ipc = "walk"
    /\ epc = "idle"
    /\ plan # <<>>
    /\ Head(plan).op = "createAsset"
    /\ \E accepted \in BOOLEAN :
           /\ CreateAsset(Head(plan).asset_id, accepted)
           /\ IF accepted
              THEN /\ plan' = Tail(plan)
                   /\ ipc' = "walk"
              ELSE /\ ipc' = "raised"
                   /\ UNCHANGED plan
    /\ UNCHANGED <<namePrefix, listOrder, deleteVars, taskVars, waitVars,
                   structure, prefix, root, tree0, root_folder, epc, etask,
                   overlapped>>

\* line 159: export_asset(content, asset_id, description) is called.
ExportLeaf ==
    /\ ipc = "walk"
    /\ plan # <<>>
    /\ Head(plan).op = "export_asset"
    /\ ExportAssetCall(Head(plan).object, Head(plan).asset_id,
                       Head(plan).description)
    /\ ipc' = IF epc' = "raised" THEN "raised" ELSE "walk"
    /\ UNCHANGED <<remoteVars, deleteVars, structure, prefix, root, tree0,
                   root_folder, plan>>

\* line 123: wait has returned (its result and its locals are dropped),
\* export_asset returns the path.
ExportAssetReturn ==
    /\ epc = "waiting"
    /\ wpc = "returned"
    /\ epc' = "returned"
    /\ wpc' = "idle"
    /\ now' = 0
    /\ task' = NoTask
    /\ timeout' = 0
    /\ state' = "NONE"
    /\ start_time' = 0
    /\ wake' = 0
    /\ wret' = "NONE"
    /\ polls' = 0
    /\ sleeps' = 0
    /\ completedAt' = Stamps(tasks)
    /\ UNCHANGED <<remoteVars, deleteVars, tasks, handle, observed, ipc,
                   structure, prefix, root, tree0, createCalls, root_folder,
                   plan, etask, overlapped>>

\* line 31: the assertion of wait fails and leaves export_asset and init_tree.
ExportAssetRaise ==
    /\ epc = "waiting"
    /\ wpc = "raised"
    /\ epc' = "raised"
    /\ ipc' = "raised"
    /\ UNCHANGED <<remoteVars, deleteVars, taskVars, waitVars, structure,
                   prefix, root, tree0, createCalls, root_folder, plan, etask,
                   overlapped>>

\* line 152: the loop of _recursive_create goes on after export_asset.
NextItem ==
    /\ ipc = "walk"
    /\ epc = "returned"
    /\ plan' = Tail(plan)
    /\ epc' = "idle"
    /\ UNCHANGED <<remoteVars, deleteVars, taskVars, waitVars, ipc, structure,
                   prefix, root, tree0, createCalls, root_folder, etask,
                   overlapped>>

\* line 169: return PurePosixPath(root_folder).
InitTreeReturn ==
    /\ ipc = "walk"
    /\ epc = "idle"
    /\ plan = <<>>
    /\ ipc' = "returned"
    /\ UNCHANGED <<remoteVars, deleteVars, taskVars, waitVars, structure,
                   prefix, root, tree0, createCalls, root_folder, plan, epc,
                   etask, overlapped>>

Perms(S) ==
    {s \in [1..Cardinality(S) -> S] : \A i, j \in DOMAIN s : i # j => s[i] # s[j]}

NoDry == [id |-> <<>>, store |-> <<>>, out |-> <<>>]

InitRemote ==
    /\ store \in Stores
    /\ namePrefix \in NamePrefixes
    /\ listOrder \in Perms(SegNames)

InitDelete ==
    /\ dpc = "idle"
    /\ asset_id = <<>>
    /\ dry_run = TRUE
    /\ output = <<>>
    /\ got_assets = <<>>
    /\ assets_ordered = <<>>
    /\ result = <<>>
    /\ store0 = <<>>
    /\ deleteCalls = <<>>
    /\ listCalls = 0
    /\ lastDry = NoDry

InitWait ==
    /\ now = 0
    /\ wpc = "idle"
    /\ task = NoTask
    /\ timeout = 0
    /\ handle = 0
    /\ state = "NONE"
    /\ start_time = 0
    /\ wake = 0
    /\ wret = "NONE"
    /\ polls = 0
    /\ sleeps = 0
    /\ observed = "NONE"

InitTree ==
    /\ ipc = "idle"
    /\ structure = <<>>
    /\ prefix = ""
    /\ root = <<>>
    /\ tree0 = <<>>
    /\ createCalls = <<>>
    /\ root_folder = <<>>
    /\ plan = <<>>
    /\ epc = "idle"
    /\ etask = 0
    /\ overlapped = FALSE

\* No remote task.
InitNoTask ==
    /\ tasks = <<>>
    /\ completedAt = <<>>

Init == InitRemote /\ InitDelete /\ InitWait /\ InitNoTask /\ InitTree

NextDelete ==
    \/ \E id \in Universe, dry \in BOOLEAN : DeleteAssetsCall(id, dry)
    \/ DeleteNested
    \/ DeleteInitial

SpecDelete == Init /\ [][NextDelete]_vars

\* wait called on one remote task, by its Task object or by a description.
InitWaitSpec ==
    /\ store = [p \in {Root} |-> "FOLDER"]
    /\ namePrefix = <<>>
    /\ listOrder = CHOOSE o \in Perms(SegNames) : TRUE
    /\ InitDelete
    /\ InitWait
    /\ InitTree
    /\ \E s \in TaskStates :
           /\ tasks = <<[description |-> <<"d">>,
                         state |-> s,
                         assetId |-> Append(Root, "a"),
                         type |-> "IMAGE",
                         listed |-> TRUE]>>
           /\ completedAt = Stamps(tasks)

NextWait ==
    \/ /\ \E t \in {TaskObject(1)} \cup {TaskDescription(d) : d \in Descriptions},
              to \in 0..MaxTimeout : WaitCall(t, to)
       /\ UNCHANGED <<remoteVars, deleteVars, tasks, completedAt, treeVars>>
    \/ /\ WaitResolve
       /\ UNCHANGED <<remoteVars, deleteVars, taskVars, treeVars>>
    \/ /\ WaitLoop
       /\ UNCHANGED <<remoteVars, deleteVars, taskVars, treeVars>>
    \/ /\ WaitPoll
       /\ UNCHANGED <<remoteVars, deleteVars, taskVars, treeVars>>
    \/ Tick
    \/ \E i \in DOMAIN tasks : TaskStep(i)

SpecWait == InitWaitSpec /\ [][NextWait]_vars

\* The statements of wait, run by the interpreter one after the other.
WaitRuns ==
    /\ WaitResolve \/ WaitLoop \/ WaitPoll
    /\ UNCHANGED <<remoteVars, deleteVars, taskVars, treeVars>>

\* wait under its scheduling: a time.sleep ends (time passes) and the
\* statement that is next runs; the remote task need never move.
SpecWaitFair == SpecWait /\ WF_vars(Tick) /\ WF_vars(WaitRuns)

\* The structures init_tree is given: the one of the test fixture (a folder
\* of an image and a feature collection), two folders whose leaves share a
\* name, and two with an object that is neither image nor feature collection.
Structures ==
    {<<<<"a", Dict(<<<<"a", Image>>, <<"b", FeatureCollection>>>>)>>>>,
     <<<<"a", Dict(<<<<"a", Image>>>>)>>, <<"b", Dict(<<<<"a", FeatureCollection>>>>)>>>>,
     <<<<"a", Dict(<<>>)>>, <<"b", OtherObject>>>>,
     <<<<"a", Image>>, <<"b", OtherObject>>>>}

\* The values init_tree is given for root: the account's root, and the
\* asset folder of a cloud project.
RootArguments == {Root, <<"projects", "p", "assets">>}

\* The accounts init_tree runs on: the root holds the folder a, which is
\* empty or holds the image b.
TreeStores ==
    {[p \in {Root, Append(Root, "a")} |-> "FOLDER"],
     [p \in {Root, Append(Root, "a"), Root \o <<"a", "b">>} |->
         IF p = Root \o <<"a", "b">> THEN "IMAGE" ELSE "FOLDER"]}

InitTreeSpec ==
    /\ store \in TreeStores
    /\ namePrefix \in NamePrefixes
    /\ listOrder = CHOOSE o \in Perms(SegNames) : TRUE
    /\ InitDelete
    /\ InitWait
    /\ InitTree
    /\ InitNoTask

\* delete_assets is called on the path init_tree returned.
DeleteTree(dry) ==
    /\ ipc = "returned"
    /\ DeleteAssetsCall(root_folder, dry)

NextTree ==
    \/ \E struct \in Structures, pfx \in SegNames, rt \in RootArguments :
           InitTreeCall(struct, pfx, rt)
    \/ CreateFolder
    \/ ExportLeaf
    \/ ExportAssetReturn
    \/ ExportAssetRaise
    \/ NextItem
    \/ InitTreeReturn
    \/ /\ WaitResolve
       /\ UNCHANGED <<remoteVars, deleteVars, taskVars, treeVars>>
    \/ /\ WaitLoop
       /\ UNCHANGED <<remoteVars, deleteVars, taskVars, treeVars>>
    \/ /\ WaitPoll
       /\ UNCHANGED <<remoteVars, deleteVars, taskVars, treeVars>>
    \/ Tick
    \/ \E i \in DOMAIN tasks : TaskStep(i)
    \/ \E i \in DOMAIN tasks : TaskRegister(i)
    \/ \E dry \in BOOLEAN : DeleteTree(dry)
    \/ DeleteNested
    \/ DeleteInitial

SpecTree == InitTreeSpec /\ [][NextTree]_vars

\* ------------------------------------------------- delete_assets: claims
Descendants(st, id) == {q \in DOMAIN st : q # id /\ IsPrefix(id, q)}

Entries(list) == {list[i] : i \in DOMAIN list}

\* C1: the list delete_assets returns for a folder F, in dry-run and in real
\* mode, never has an entry of fewer segments before an entry of more
\* segments, and its last entry is F.
C1_DeepestFirst ==
    (dpc = "returned" /\ store0[asset_id] = "FOLDER") =>
        /\ \A i, j \in DOMAIN result :
               i < j => Len(result[i]) >= Len(result[j])
        /\ result[Len(result)] = asset_id

\* A real run over a folder whose listing order is not already deepest
\* first: three levels, four entries.
C1_Witness ==
    /\ dpc = "returned"
    /\ ~dry_run
    /\ store0[asset_id] = "FOLDER"
    /\ Len(result) = 4
    /\ Cardinality({Len(result[i]) : i \in DOMAIN result}) = 3

\* C2: while and after delete_assets runs with dry_run=True, the remote
\* namespace is the one of the call and ee.data.deleteAsset was never called.
C2_DryRunFrame ==
    (dry_run /\ dpc \in {"loop", "returned"}) =>
        /\ store = store0
        /\ deleteCalls = <<>>

C2_Witness ==
    /\ dpc = "returned"
    /\ dry_run
    /\ Len(result) >= 3

\* C3: when delete_assets with dry_run=False returns, no entry of the
\* returned list exists any more, and every asset outside the subtree of
\* asset_id is still there, unchanged.
C3_RealDeletes ==
    (dpc = "returned" /\ ~dry_run) =>
        /\ \A i \in DOMAIN result : IdOf(result[i]) \notin DOMAIN store
        /\ \A q \in DOMAIN store0 :
               ~IsPrefix(asset_id, q) => q \in DOMAIN store /\ store[q] = store0[q]

\* A real run that deleted a subtree beside a sibling that stays.
C3_Witness ==
    /\ dpc = "returned"
    /\ ~dry_run
    /\ Len(result) >= 2
    /\ \E q \in DOMAIN store : q # Root /\ Len(q) >= Len(asset_id)

\* C4 as claimed: the returned list holds the ids of the descendants of
\* asset_id and asset_id, each once, is the list of the dry run of the same
\* call, and is [asset_id] without any listing when asset_id is no folder.
C4_AsClaimed ==
    dpc = "returned" =>
        /\ Entries(result) = Descendants(store0, asset_id) \cup {asset_id}
        /\ Len(result) = Cardinality(Descendants(store0, asset_id)) + 1
        /\ (~dry_run /\ lastDry.id = asset_id /\ lastDry.store = store0) =>
               result = lastDry.out
        /\ store0[asset_id] # "FOLDER" =>
               result = <<asset_id>> /\ listCalls = 0

\* C4 as amended: the returned list holds the "name" of every descendant of
\* asset_id (its id only where the remote's names are the ids) and asset_id
\* as it was passed, each once; it is the list of the dry run of the same
\* call; it is [asset_id] without any listing when asset_id is no folder.
C4_NamesOfSubtree ==
    dpc = "returned" =>
        /\ Entries(result) =
               {NameOf(q) : q \in Descendants(store0, asset_id)} \cup {asset_id}
        /\ Len(result) = Cardinality(Descendants(store0, asset_id)) + 1
        /\ (~dry_run /\ lastDry.id = asset_id /\ lastDry.store = store0) =>
               result = lastDry.out
        /\ store0[asset_id] # "FOLDER" =>
               result = <<asset_id>> /\ listCalls = 0

\* A real run after the dry run of the same call, over nested folders whose
\* names are not their ids.
C4_Witness ==
    /\ dpc = "returned"
    /\ ~dry_run
    /\ lastDry.id = asset_id
    /\ lastDry.store = store0
    /\ namePrefix # <<>>
    /\ \E q \in Descendants(store0, asset_id) : Len(q) >= Len(asset_id) + 2

\* C5: ee.data.deleteAsset is never called on an asset that still holds
\* another asset.
C5_NeverNonEmpty ==
    \A i \in DOMAIN deleteCalls : ~deleteCalls[i].nonEmpty

\* A real run that deleted a folder nested in asset_id which held assets
\* when delete_assets was called.
C5_Witness ==
    /\ dpc = "returned"
    /\ ~dry_run
    /\ \E i \in DOMAIN deleteCalls :
           /\ deleteCalls[i].ref # asset_id
           /\ store0[IdOf(deleteCalls[i].ref)] = "FOLDER"
           /\ HasContent(store0, IdOf(deleteCalls[i].ref))

\* ------------------------------------------------------------ wait: claims
NonTerminal == {"UNSUBMITTED", "READY", "RUNNING"}

\* C6: for every timeout > 0, when the task became COMPLETED less than
\* timeout seconds after start_time, wait returns "COMPLETED".
C6_CompletedBeforeTimeout ==
    (/\ wpc = "returned"
     /\ timeout > 0
     /\ completedAt[handle] # -1
     /\ completedAt[handle] - start_time < timeout) => wret = "COMPLETED"

\* The task completed after the first poll and before the timeout, and the
\* poll that saw it came after the timeout.
C6_Witness ==
    /\ wpc = "returned"
    /\ wret = "COMPLETED"
    /\ polls >= 2
    /\ completedAt[handle] - start_time > PollInterval
    /\ completedAt[handle] - start_time < timeout
    /\ now - start_time > timeout

\* C7: once a status poll has observed FAILED, wait has returned "FAILED" and
\* no step polls or sleeps again.
C7_FailedReturnsAtOnce ==
    [][observed = "FAILED" =>
           /\ wpc = "returned"
           /\ wret = "FAILED"
           /\ wpc' = wpc
           /\ polls' = polls
           /\ sleeps' = sleeps]_vars

\* FAILED was observed while there was time for another poll.
C7_Witness ==
    /\ wpc = "returned"
    /\ wret = "FAILED"
    /\ observed = "FAILED"
    /\ timeout - (now - start_time) > PollInterval

\* C8 as claimed, for a timeout > 0: when wait returns without COMPLETED or
\* FAILED (the timeout elapsed), the returned state is the one its last
\* status poll obtained and is a non-terminal state.
C8_AsClaimed ==
    (wpc = "returned" /\ timeout > 0 /\ wret \notin {"COMPLETED", "FAILED"}) =>
        /\ polls >= 1
        /\ wret = observed
        /\ wret \in NonTerminal

\* C9 as claimed: with timeout = 0, wait polls and returns only a polled
\* COMPLETED or FAILED.
C9_AsClaimed ==
    (wpc = "returned" /\ timeout = 0) =>
        /\ polls >= 1
        /\ wret = observed
        /\ wret \in {"COMPLETED", "FAILED"}

\* ---------------------------------------------------- export_asset: claims
\* C10 as claimed: when export_asset has returned, the task it started is
\* COMPLETED and its asset exists, and init_tree never started a task while
\* an earlier one was unfinished.
C10_AsClaimed ==
    /\ epc = "returned" =>
           /\ tasks[etask].state = "COMPLETED"
           /\ tasks[etask].assetId \in DOMAIN store
    /\ ~overlapped

\* C11: the step in which export_asset is given an object that is neither a
\* FeatureCollection nor an Image raises, and starts no task, calls no wait
\* and leaves the remote store as it is.
C11_UnsupportedRaisesFirst ==
    [][(/\ ipc = "walk"
        /\ epc = "idle"
        /\ plan # <<>>
        /\ Head(plan).op = "export_asset"
        /\ ~(Head(plan).object.kind \in {"FeatureCollection", "Image"})
        /\ <<epc, ipc, plan>>' # <<epc, ipc, plan>>) =>
           /\ epc' = "raised"
           /\ ipc' = "raised"
           /\ tasks' = tasks
           /\ store' = store
           /\ waitVars' = waitVars]_vars

\* export_asset raised on an unsupported object after an earlier export had
\* started a task: that task is the only one.
C11_Witness ==
    /\ epc = "raised"
    /\ ipc = "raised"
    /\ plan # <<>>
    /\ Head(plan).object = OtherObject
    /\ Len(tasks) = 1
    /\ wpc = "idle"

\* C12: get_assets(folder) holds the record of every descendant of the folder
\* exactly once and not the folder itself, in pre-order: a folder's record
\* comes before those of its descendants, which follow it without a gap, and
\* siblings come in the order of the remote listing; an empty folder gives the
\* empty list.
C12_PreOrder ==
    (dpc # "idle" /\ asset_id \in DOMAIN store0
        /\ store0[asset_id] = "FOLDER") =>
        LET n == Len(got_assets)
            Pos(seg) == CHOOSE k \in DOMAIN listOrder : listOrder[k] = seg
            Last(p) == p[Len(p)]
        IN  /\ {got_assets[i].id : i \in 1..n} = Descendants(store0, asset_id)
            /\ n = Cardinality(Descendants(store0, asset_id))
            /\ \A i \in 1..n :
                  got_assets[i] = [type |-> store0[got_assets[i].id],
                                   name |-> namePrefix \o got_assets[i].id,
                                   id |-> got_assets[i].id]
            /\ \A i, j \in 1..n :
                  (i # j /\ IsPrefix(got_assets[i].id, got_assets[j].id))
                      => i < j
            /\ \A i, k, j \in 1..n :
                  (i < k /\ k < j
                      /\ IsPrefix(got_assets[i].id, got_assets[j].id))
                      => IsPrefix(got_assets[i].id, got_assets[k].id)
            /\ \A i, j \in 1..n :
                  (i < j /\ Parent(got_assets[i].id) = Parent(got_assets[j].id))
                      => Pos(Last(got_assets[i].id))
                             < Pos(Last(got_assets[j].id))
            /\ (Descendants(store0, asset_id) = {} => got_assets = <<>>)

\* get_assets listed a folder whose first child is a folder with a child of
\* its own, followed by the folder's next sibling, which the remote lists in
\* an order that is not the alphabetical one.
C12_Witness ==
    /\ dpc = "loop"
    /\ Len(got_assets) >= 3
    /\ got_assets[1].type = "FOLDER"
    /\ Parent(got_assets[1].id) = asset_id
    /\ Parent(got_assets[2].id) = got_assets[1].id
    /\ Parent(got_assets[3].id) = asset_id
    /\ listOrder = <<"b", "a">>

\* ------------------------------------------------------ init_tree: claims
\* The entries of a nested structure, each with the path <parent path>/<name>.
RECURSIVE EntriesOf(_, _)
EntriesOf(struct, folder) ==
    IF struct = <<>> THEN {}
    ELSE LET name == Head(struct)[1]
             content == Head(struct)[2]
             path == Append(folder, name)
         IN  {[path |-> path, name |-> name, kind |-> content.kind]}
                 \cup (IF content.kind = "dict"
                       THEN EntriesOf(content.items, path)
                       ELSE {})
                 \cup EntriesOf(Tail(struct), folder)

CallsOf(op) == {i \in DOMAIN createCalls : createCalls[i].op = op}

C14_ParentFirst ==
    \A i \in DOMAIN createCalls :
        IF i = 1
        THEN /\ createCalls[i].op = "createAsset"
             /\ createCalls[i].asset_id = root_folder
        ELSE \E j \in 1..(i - 1) :
                 /\ createCalls[j].op = "createAsset"
                 /\ createCalls[j].ok
                 /\ createCalls[j].asset_id = Parent(createCalls[i].asset_id)

\* init_tree has returned after an export into one subfolder and a later
\* export into another subfolder.
C14_Witness ==
    /\ ipc = "returned"
    /\ \E i, j \in DOMAIN createCalls :
           /\ i < j
           /\ createCalls[i].op = "export"
           /\ createCalls[j].op = "export"
           /\ Parent(createCalls[i].asset_id) # root_folder
           /\ Parent(createCalls[j].asset_id) # Parent(createCalls[i].asset_id)
           /\ Parent(createCalls[j].asset_id) # root_folder

\* C15: a remote call of init_tree that fails is its last remote call and
\* the error leaves init_tree; the folders created and the tasks started
\* before it, and whatever the store held before, are still there; when
\* <root>/<prefix> exists already, the one call made is the failing creation
\* of the root folder, and the store and the task list are as they were.
C15_FailFast ==
    /\ \A i \in DOMAIN createCalls :
           ~createCalls[i].ok => (i = Len(createCalls) /\ ipc = "raised")
    /\ ipc = "raised" =>
           /\ \A i \in CallsOf("createAsset") :
                  createCalls[i].ok =>
                      /\ createCalls[i].asset_id \in DOMAIN store
                      /\ store[createCalls[i].asset_id] = "FOLDER"
           /\ \A q \in DOMAIN tree0 : q \in DOMAIN store /\ store[q] = tree0[q]
           /\ Len(tasks) = Cardinality(CallsOf("export"))
    /\ (ipc # "idle" /\ Append(Root, prefix) \in DOMAIN tree0) =>
           /\ ipc = "raised"
           /\ Len(createCalls) = 1
           /\ ~createCalls[1].ok
           /\ store = tree0
           /\ tasks = <<>>

\* The creation of the second subfolder failed after the first subfolder was
\* created and an export into it was started.
C15_Witness ==
    /\ ipc = "raised"
    /\ Len(createCalls) = 4
    /\ createCalls[2].op = "createAsset"
    /\ createCalls[3].op = "export"
    /\ createCalls[4].op = "createAsset"
    /\ ~createCalls[4].ok

\* C16: a remote delete of delete_assets (dry_run=False) that fails is its
\* last remote delete, the failure leaves delete_assets and no list is
\* returned; the assets deleted are exactly the entries before the failing
\* one, which come in the deepest-first order, and every other asset, the
\* folder itself among them, is as it was.
C16_FailedDeleteStops ==
    /\ \A i \in DOMAIN deleteCalls :
           ~deleteCalls[i].ok =>
               /\ i = Len(deleteCalls)
               /\ dpc = "raised"
               /\ result = <<>>
    /\ (dpc = "raised" /\ deleteCalls # <<>>) =>
           LET n == Len(deleteCalls)
           IN  /\ ~dry_run
               /\ ~deleteCalls[n].ok
               /\ output = [i \in 1..n |-> deleteCalls[i].ref]
               /\ DOMAIN store0 \ DOMAIN store
                      = {IdOf(output[i]) : i \in 1..(n - 1)}
               /\ \A q \in DOMAIN store : store[q] = store0[q]
               /\ asset_id \in DOMAIN store
               /\ \A i, j \in 1..n :
                      i < j => Len(output[i]) >= Len(output[j])
               /\ (lastDry.id = asset_id /\ lastDry.store = store0) =>
                      output = SubSeq(lastDry.out, 1, n)

\* After a dry run, the real run failed at its third delete, a nested asset
\* that held nothing: the two entries before it are gone.
C16_Witness ==
    /\ dpc = "raised"
    /\ Len(deleteCalls) = 3
    /\ ~deleteCalls[3].nonEmpty
    /\ IdOf(deleteCalls[3].ref) # asset_id
    /\ lastDry.id = asset_id
    /\ lastDry.store = store0
    /\ Cardinality(DOMAIN store0 \ DOMAIN store) = 2

\* ---------------------------------------------------- export_asset: claims
\* C17: every state that wait polls inside export_asset is the state of the
\* task export_asset has just started, whatever the remote task list holds.
C17_AsClaimed ==
    (epc = "waiting" /\ polls >= 1) => handle = etask

\* ------------------------------------------------------------ wait: claims
\* C18: for every timeout > 0 and whatever the task does, a wait that found
\* its task returns; it polls the status once every 5 seconds from
\* start_time on, at most ceil(timeout / 5) times, and at least once before
\* it returns.
C18_Terminates ==
    /\ []((timeout > 0 /\ wpc \in {"check", "sleep", "returned"}) =>
             /\ polls <= (timeout + PollInterval - 1) \div PollInterval
             /\ wpc \in {"check", "returned"} =>
                    now - start_time = PollInterval * polls
             /\ wpc = "returned" => polls >= 1)
    /\ ((timeout > 0 /\ wpc = "check") ~> (wpc = "returned"))

\* wait returned RUNNING for a task that never finished, after the third
\* and last poll a timeout of 12 allows.
C18_Witness ==
    /\ wpc = "returned"
    /\ timeout = 12
    /\ polls = 3
    /\ wret = "RUNNING"
    /\ now - start_time = 15

\* ----------------------------------------- init_tree, delete_assets: claims
\* C19: after an init_tree that returned and whose exports have all
\* COMPLETED, a delete_assets(returned path, dry_run=False) that returns
\* leaves the remote store exactly as it was before init_tree.
C19_RoundTrip ==
    (/\ ipc = "returned"
     /\ dpc = "returned"
     /\ ~dry_run
     /\ asset_id = root_folder
     /\ \A i \in DOMAIN tasks : tasks[i].state = "COMPLETED") =>
        store = tree0

\* The round trip over two subfolders with one exported asset each, both
\* COMPLETED: five assets were deleted, by their names on a legacy account.
C19_Witness ==
    /\ ipc = "returned"
    /\ dpc = "returned"
    /\ ~dry_run
    /\ Len(tasks) = 2
    /\ \A i \in DOMAIN tasks : tasks[i].state = "COMPLETED"
    /\ Len(result) = 5
    /\ Len(deleteCalls) = 5
    /\ namePrefix # <<>>
    /\ store = tree0

====
